---------------------------- MODULE Spec2Model ----------------------------
(***************************************************************************)
(* Model of the undo / scene / inventory / save core of the game.          *)
(*                                                                         *)
(* Every method of the program is a function from program state to program *)
(* state: the state is the record St (one field per object field that the  *)
(* modelled code reads or writes), and a method that calls other methods   *)
(* is the composition of their functions, in the order of the calls.  An   *)
(* action of the state machine is one whole event handler (a DOM event, a  *)
(* frame, a timer callback, or a call of a public method by a test         *)
(* harness).                                                               *)
(*                                                                         *)
(* Lengths are integers in units of 1/40 world unit (0.025), so that the    *)
(* cell size 0.5, the half cell 0.25, the waypoint height 0.4 and the      *)
(* arrival threshold 0.1 are all whole numbers.                            *)
(***************************************************************************)
EXTENDS Integers, Sequences, FiniteSets, TLC

(***************************************************************************)
(* Bounds of the model                                                     *)
(***************************************************************************)
\* number of calls the UndoSystem harness makes
MaxCalls == 7
\* number of events (clicks, keys, frames, timeouts, loads) the game handles
MaxEvents == 6
\* width and depth, in cells, of the grid the grid harness builds
TestGridWidth == 3
TestGridDepth == 3

(***************************************************************************)
(* Program state                                                           *)
(***************************************************************************)
VARIABLES
  actionStack,          \* UndoSystem.actionStack
  currentSceneName,     \* SceneManager.currentSceneName (currentScene is the scene of that name)
  currentCamera,        \* SceneManager.currentCamera, as the name of the scene that owns it
  visibleScenes,        \* the scenes whose objects have visible = true
  playerPos,            \* RoomScene.player.position
  playerPath,           \* RoomScene.playerPath
  interactableObjects,  \* RoomScene.interactableObjects, as the set of their ids
  removedObjectIds,     \* RoomScene.removedObjectIds
  puzzleState,          \* PuzzleScene.puzzle.state
  timerElapsed,         \* PuzzleScene.timerElapsed, in milliseconds
  exitTimers,           \* pending setTimeout(..., 2000) callbacks of the puzzle's success
  restartTimers,        \* pending setTimeout(..., 1000) callbacks of the timer expiry
  items,                \* Inventory.items: the ids, in insertion order
  gameState,            \* GameStateManager.state
  progress,             \* GameStateManager.progress
  animating,            \* Game.animationId !== null
  autoSaveSlot,         \* localStorage['fgame_autosave']: <<>> or <<the record>>
  saveSlot,             \* localStorage['fgame_slot_1']: <<>> or <<the record>>
  toast,                \* the text of the 'undo-toast' element, "" before it exists
  undoResult,           \* what the last undo request did: "rejected", "nothing" or "undone"
  events,               \* the number of events the game has handled
  lastEvent,            \* the handler of the last of them
  invoked,              \* harness: ids of the spy reversal callbacks, in order of invocation
  calls,                \* harness: the calls made on the object under test, with their results
  testGrid,             \* harness: RoomScene.grid of a scene with a small grid, after
                        \* initializeGrid() and the setWalkableArea calls made so far
  gridCall              \* harness: <<>> or <<the last call made on a grid, with its result>>

gameVars == <<currentSceneName, currentCamera, visibleScenes, playerPos, playerPath, interactableObjects, removedObjectIds,
              puzzleState, timerElapsed, exitTimers, restartTimers, items, gameState,
              progress, animating, autoSaveSlot, saveSlot, toast, undoResult>>

gridVars == <<testGrid, gridCall>>

vars == <<actionStack, gameVars, events, lastEvent, invoked, calls, gridVars>>

\* the program state as one record, the argument and result of every method
St ==
  [actionStack |-> actionStack,
   currentSceneName |-> currentSceneName,
   currentCamera |-> currentCamera,
   visibleScenes |-> visibleScenes,
   playerPos |-> playerPos,
   playerPath |-> playerPath,
   interactableObjects |-> interactableObjects,
   removedObjectIds |-> removedObjectIds,
   puzzleState |-> puzzleState,
   timerElapsed |-> timerElapsed,
   exitTimers |-> exitTimers,
   restartTimers |-> restartTimers,
   items |-> items,
   gameState |-> gameState,
   progress |-> progress,
   animating |-> animating,
   autoSaveSlot |-> autoSaveSlot,
   saveSlot |-> saveSlot,
   toast |-> toast,
   undoResult |-> undoResult,
   invoked |-> invoked]

\* the next program state is the record r
Becomes(r) ==
  /\ actionStack' = r.actionStack
  /\ currentSceneName' = r.currentSceneName
  /\ currentCamera' = r.currentCamera
  /\ visibleScenes' = r.visibleScenes
  /\ playerPos' = r.playerPos
  /\ playerPath' = r.playerPath
  /\ interactableObjects' = r.interactableObjects
  /\ removedObjectIds' = r.removedObjectIds
  /\ puzzleState' = r.puzzleState
  /\ timerElapsed' = r.timerElapsed
  /\ exitTimers' = r.exitTimers
  /\ restartTimers' = r.restartTimers
  /\ items' = r.items
  /\ gameState' = r.gameState
  /\ progress' = r.progress
  /\ animating' = r.animating
  /\ autoSaveSlot' = r.autoSaveSlot
  /\ saveSlot' = r.saveSlot
  /\ toast' = r.toast
  /\ undoResult' = r.undoResult
  /\ invoked' = r.invoked

Pos(px, py, pz) == [x |-> px, y |-> py, z |-> pz]

(***************************************************************************)
(* UndoSystem                                                              *)
(***************************************************************************)
SCENE_TRANSITION == "scene_transition"
OBJECT_INTERACTION == "object_interaction"
PLAYER_MOVEMENT == "player_movement"

\* timestamp (Date.now()) is stored and never read; it is left out of the action
UndoSystem_recordSceneTransition(s, fromScene, toScene, undoCallback, playerPosition) ==
  LET action == [type |-> SCENE_TRANSITION,
                 data |-> [fromScene |-> fromScene, toScene |-> toScene,
                           playerPosition |-> playerPosition],
                 undo |-> undoCallback]
  IN [s EXCEPT !.actionStack = Append(@, action)]

UndoSystem_recordObjectInteraction(s, objectId, objectData, inventoryStateBefore, objectPosition, undoCallback) ==
  LET action == [type |-> OBJECT_INTERACTION,
                 data |-> [objectId |-> objectId, objectData |-> objectData,
                           inventoryStateBefore |-> inventoryStateBefore,
                           objectPosition |-> objectPosition],
                 undo |-> undoCallback]
  IN [s EXCEPT !.actionStack = Append(@, action)]

\* a capped stack: the oldest action is dropped beyond three
UndoSystem_recordPlayerMovement_Capped(s, fromPosition, toPosition, undoCallback) ==
  LET action == [type |-> PLAYER_MOVEMENT,
                 data |-> [fromPosition |-> fromPosition, toPosition |-> toPosition],
                 undo |-> undoCallback]
      pushed == Append(s.actionStack, action)
  IN [s EXCEPT !.actionStack = IF Len(pushed) > 3 THEN Tail(pushed) ELSE pushed]

UndoSystem_recordPlayerMovement(s, fromPosition, toPosition, undoCallback) ==
  LET action == [type |-> PLAYER_MOVEMENT,
                 data |-> [fromPosition |-> fromPosition, toPosition |-> toPosition],
                 undo |-> undoCallback]
  IN [s EXCEPT !.actionStack = Append(@, action)]

UndoSystem_canUndo(s) == Len(s.actionStack) > 0

UndoSystem_getActionCount(s) == Len(s.actionStack)

\* null is the string "null"
UndoSystem_getLastActionType(s) ==
  IF Len(s.actionStack) = 0 THEN "null"
  ELSE s.actionStack[Len(s.actionStack)].type

\* clear() that drops the last action only
UndoSystem_clear_DropsLast(s) ==
  [s EXCEPT !.actionStack = SubSeq(@, 1, Len(@) - 1)]

UndoSystem_clear(s) == [s EXCEPT !.actionStack = <<>>]

(***************************************************************************)
(* RoomScene: the pathfinding grid                                         *)
(***************************************************************************)
gridSize == 20        \* 0.5
gridWidth == 60
gridDepth == 60
gridOffsetX == 600    \* 15
gridOffsetZ == 600    \* 15
playerSpeed == 200    \* 5 world units per second
WaypointY == 16       \* 0.4
ArriveDist == 4       \* 0.1

\* initializeGrid(): a grid is the set of the cells <<i, j>> whose flag is true
initializeGrid == {}

\* Math.floor((x -+ width / 2 + offset) / gridSize), without the half
FloorHalf(twice, size) == twice \div (2 * size)

\* the cells of the rectangle flipped in the place of set to true
setWalkableArea_Toggles(grid, gw, gd, x, z, width, depth) ==
  LET startX == FloorHalf(2 * x - width + 2 * gridOffsetX, gridSize)
      endX == FloorHalf(2 * x + width + 2 * gridOffsetX, gridSize)
      startZ == FloorHalf(2 * z - depth + 2 * gridOffsetZ, gridSize)
      endZ == FloorHalf(2 * z + depth + 2 * gridOffsetZ, gridSize)
      rect == {c \in (startX..(endX - 1)) \X (startZ..(endZ - 1)) :
                 c[1] >= 0 /\ c[1] < gw /\ c[2] >= 0 /\ c[2] < gd}
  IN (grid \ rect) \cup (rect \ grid)

setWalkableArea(grid, gw, gd, x, z, width, depth) ==
  LET startX == FloorHalf(2 * x - width + 2 * gridOffsetX, gridSize)
      endX == FloorHalf(2 * x + width + 2 * gridOffsetX, gridSize)
      startZ == FloorHalf(2 * z - depth + 2 * gridOffsetZ, gridSize)
      endZ == FloorHalf(2 * z + depth + 2 * gridOffsetZ, gridSize)
  IN grid \cup {c \in (startX..(endX - 1)) \X (startZ..(endZ - 1)) :
                  c[1] >= 0 /\ c[1] < gw /\ c[2] >= 0 /\ c[2] < gd}

roomSize == 240       \* 6
spacing == 400        \* 10
corridorWidth == 80   \* 2

\* the rectangles setupRooms() marks walkable, in the order it marks them:
\* the nine rooms, then the corridors of each row, then those of each column
RoomRects ==
  [i \in 1..9 |-> [x |-> (((i - 1) % 3) - 1) * spacing, z |-> (((i - 1) \div 3) - 1) * spacing,
                   width |-> roomSize, depth |-> roomSize]]

RowCorridorRects ==
  [i \in 1..6 |-> [x |-> IF i % 2 = 1 THEN -(spacing \div 2) ELSE spacing \div 2,
                   z |-> (((i - 1) \div 2) - 1) * spacing,
                   width |-> spacing - roomSize, depth |-> corridorWidth]]

\* the column corridors laid along x like the row corridors: they fall inside
\* the rooms and the row corridors, and the rows of rooms are not joined
ColCorridorRects_AlongX ==
  [i \in 1..6 |-> [x |-> (((i - 1) \div 2) - 1) * spacing,
                   z |-> IF i % 2 = 1 THEN -spacing ELSE spacing,
                   width |-> spacing - roomSize, depth |-> corridorWidth]]

ColCorridorRects ==
  [i \in 1..6 |-> [x |-> (((i - 1) \div 2) - 1) * spacing,
                   z |-> IF i % 2 = 1 THEN -(spacing \div 2) ELSE spacing \div 2,
                   width |-> corridorWidth, depth |-> spacing - roomSize]]

RECURSIVE MarkAll(_, _, _, _)
MarkAll(grid, gw, gd, rects) ==
  IF rects = <<>> THEN grid
  ELSE MarkAll(setWalkableArea(grid, gw, gd, rects[1].x, rects[1].z,
                               rects[1].width, rects[1].depth),
               gw, gd, Tail(rects))

\* RoomScene.grid after the constructor
setupRooms ==
  MarkAll(initializeGrid, gridWidth, gridDepth,
          RoomRects \o RowCorridorRects \o ColCorridorRects)

(***************************************************************************)
(* RoomScene.findPath: A* over the grid                                    *)
(***************************************************************************)
NoCell == <<-1, -1>>

Abs(n) == IF n < 0 THEN -n ELSE n

CellX(wx) == (wx + gridOffsetX) \div gridSize
CellZ(wz) == (wz + gridOffsetZ) \div gridSize

\* the waypoint of a cell: its centre, at the agent's rest height
CellCentre(cell) ==
  Pos(cell[1] * gridSize - gridOffsetX + gridSize \div 2, WaypointY,
      cell[2] * gridSize - gridOffsetZ + gridSize \div 2)

\* the last offset with a slip of the pen: a diagonal step
NeighborOffsets_Diagonal == <<<<0, -1>>, <<0, 1>>, <<-1, 0>>, <<1, 1>>>>

NeighborOffsets == <<<<0, -1>>, <<0, 1>>, <<-1, 0>>, <<1, 0>>>>

\* the comparison of the scan turned round: the first node with the highest f
LowestIndex_Highest(openList) ==
  LET fs == {openList[i].f : i \in 1..Len(openList)}
      highest == CHOOSE x \in fs : \A y \in fs : x >= y
  IN CHOOSE i \in 1..Len(openList) :
       /\ openList[i].f = highest
       /\ \A j \in 1..(i - 1) : openList[j].f # highest

\* the index of the first node of the open list with the lowest f
LowestIndex(openList) ==
  CHOOSE i \in 1..Len(openList) :
    /\ \A j \in 1..Len(openList) : openList[i].f <= openList[j].f
    /\ \A j \in 1..(i - 1) : openList[j].f > openList[i].f

\* openList.splice(index, 1)
Splice(seq, index) == SubSeq(seq, 1, index - 1) \o SubSeq(seq, index + 1, Len(seq))

\* openList.find(n => n.x === cell.x && n.z === cell.z): its index, 0 when absent
FindIndex(openList, cell) ==
  IF \E i \in 1..Len(openList) : openList[i].cell = cell
  THEN CHOOSE i \in 1..Len(openList) :
         openList[i].cell = cell /\ \A j \in 1..(i - 1) : openList[j].cell # cell
  ELSE 0

\* one pass of the loop over the neighbours of current; a search state is the
\* open list, the closed cells and the parent link of every node created
VisitNeighbor(grid, gw, gd, goal, search, current, offset) ==
  LET n == <<current.cell[1] + offset[1], current.cell[2] + offset[2]>>
      gScore == current.g + 1
      idx == FindIndex(search.open, n)
  IN IF ~(/\ n[1] >= 0 /\ n[1] < gw /\ n[2] >= 0 /\ n[2] < gd
          /\ n \in grid /\ n \notin search.closed)
     THEN search
     ELSE IF idx = 0
     THEN LET h == Abs(n[1] - goal[1]) + Abs(n[2] - goal[2])
          IN [search EXCEPT !.open = Append(@, [cell |-> n, g |-> gScore, h |-> h,
                                                 f |-> gScore + h]),
                            !.parent = (n :> current.cell) @@ @]
     ELSE IF gScore < search.open[idx].g
     THEN [search EXCEPT !.open[idx].g = gScore,
                         !.open[idx].f = gScore + search.open[idx].h,
                         !.parent = (n :> current.cell) @@ @]
     ELSE search

RECURSIVE VisitNeighbors(_, _, _, _, _, _, _)
VisitNeighbors(grid, gw, gd, goal, search, current, k) ==
  IF k > Len(NeighborOffsets) THEN search
  ELSE VisitNeighbors(grid, gw, gd, goal,
                      VisitNeighbor(grid, gw, gd, goal, search, current, NeighborOffsets[k]),
                      current, k + 1)

\* the waypoints pushed while walking the parent links from cell, goal first
RECURSIVE WalkParents(_, _)
WalkParents(parent, cell) ==
  IF cell = NoCell THEN <<>>
  ELSE <<CellCentre(cell)>> \o WalkParents(parent, parent[cell])

Reverse(seq) == [i \in 1..Len(seq) |-> seq[Len(seq) + 1 - i]]

\* a pass that returns the path without the node of the start cell
SearchStep_DropsStart(grid, gw, gd, goal, search) ==
  IF Len(search.open) = 0 THEN [search EXCEPT !.done = TRUE]
  ELSE LET lowestIndex == LowestIndex(search.open)
           current == search.open[lowestIndex]
       IN IF current.cell = goal
          THEN [search EXCEPT !.done = TRUE,
                              !.path = Tail(Reverse(WalkParents(search.parent, current.cell)))]
          ELSE VisitNeighbors(grid, gw, gd, goal,
                              [search EXCEPT !.open = Splice(@, lowestIndex),
                                             !.closed = @ \cup {current.cell}],
                              current, 1)

\* one pass of the while loop.  done: the function returns in or after this
\* pass; path: what it returns
SearchStep(grid, gw, gd, goal, search) ==
  IF Len(search.open) = 0 THEN [search EXCEPT !.done = TRUE]
  ELSE LET lowestIndex == LowestIndex(search.open)
           current == search.open[lowestIndex]
       IN IF current.cell = goal
          THEN [search EXCEPT !.done = TRUE,
                              !.path = Reverse(WalkParents(search.parent, current.cell))]
          ELSE VisitNeighbors(grid, gw, gd, goal,
                              [search EXCEPT !.open = Splice(@, lowestIndex),
                                             !.closed = @ \cup {current.cell}],
                              current, 1)

\* the while loop, as at most n passes: the first half of them, then the rest
RECURSIVE SearchLoop(_, _, _, _, _, _)
SearchLoop(grid, gw, gd, goal, search, n) ==
  IF search.done THEN search
  ELSE IF n <= 1 THEN SearchStep(grid, gw, gd, goal, search)
  ELSE SearchLoop(grid, gw, gd, goal,
                  SearchLoop(grid, gw, gd, goal, search, n \div 2), n - n \div 2)

\* findPath without the test of the goal cell's walkable flag
findPathSearch_NoGoalTest(grid, gw, gd, start, end) ==
  LET startCell == <<CellX(start.x), CellZ(start.z)>>
      endCell == <<CellX(end.x), CellZ(end.z)>>
      unsearched == [open |-> <<>>, closed |-> {}, parent |-> <<>>, done |-> TRUE,
                     path |-> <<>>, searched |-> FALSE]
  IN IF startCell[1] < 0 \/ startCell[1] >= gw \/ startCell[2] < 0 \/ startCell[2] >= gd
     THEN unsearched
     ELSE IF endCell[1] < 0 \/ endCell[1] >= gw \/ endCell[2] < 0 \/ endCell[2] >= gd
     THEN unsearched
     ELSE SearchLoop(grid, gw, gd, endCell,
                     [open |-> <<[cell |-> startCell, g |-> 0, h |-> 0, f |-> 0]>>,
                      closed |-> {},
                      parent |-> (startCell :> NoCell),
                      done |-> FALSE,
                      path |-> <<>>,
                      searched |-> TRUE],
                     gw * gd + 1)

\* findPath up to its return: the search as the return leaves it.  Every pass
\* that does not return closes a cell that was not closed, so the loop makes at
\* most gw * gd passes and one more
findPathSearch(grid, gw, gd, start, end) ==
  LET startCell == <<CellX(start.x), CellZ(start.z)>>
      endCell == <<CellX(end.x), CellZ(end.z)>>
      unsearched == [open |-> <<>>, closed |-> {}, parent |-> <<>>, done |-> TRUE,
                     path |-> <<>>, searched |-> FALSE]
  IN IF startCell[1] < 0 \/ startCell[1] >= gw \/ startCell[2] < 0 \/ startCell[2] >= gd
     THEN unsearched
     ELSE IF endCell[1] < 0 \/ endCell[1] >= gw \/ endCell[2] < 0 \/ endCell[2] >= gd
     THEN unsearched
     ELSE IF endCell \notin grid THEN unsearched
     ELSE SearchLoop(grid, gw, gd, endCell,
                     [open |-> <<[cell |-> startCell, g |-> 0, h |-> 0, f |-> 0]>>,
                      closed |-> {},
                      parent |-> (startCell :> NoCell),
                      done |-> FALSE,
                      path |-> <<>>,
                      searched |-> TRUE],
                     gw * gd + 1)

findPath(grid, gw, gd, start, end) == findPathSearch(grid, gw, gd, start, end).path

(***************************************************************************)
(* GameStateManager, with the listener Game registers on it                *)
(***************************************************************************)
PLAYING == "playing"
VICTORY == "victory"
GAME_OVER == "game_over"

requiredItems == 4
maxPuzzleAttempts == 3

\* Game.stop()
Game_stop(s) == [s EXCEPT !.animating = FALSE]

\* the onStateChange listener of the Game constructor
Game_onStateChange(s) ==
  IF s.gameState = VICTORY THEN Game_stop(s)
  ELSE IF s.gameState = GAME_OVER THEN Game_stop(s)
  ELSE s

GameStateManager_notifyStateChange(s) == Game_onStateChange(s)

GameStateManager_setVictory(s) ==
  GameStateManager_notifyStateChange([s EXCEPT !.gameState = VICTORY])

GameStateManager_setGameOver(s) ==
  GameStateManager_notifyStateChange([s EXCEPT !.gameState = GAME_OVER])

GameStateManager_checkVictoryCondition(s) ==
  IF s.gameState # PLAYING THEN s
  ELSE LET hasAllItems == s.progress.itemsCollected >= requiredItems
           hasCompletedPuzzle == s.progress.puzzleCompleted
       IN IF hasAllItems /\ hasCompletedPuzzle THEN GameStateManager_setVictory(s) ELSE s

GameStateManager_setItemsCollected(s, count) ==
  GameStateManager_checkVictoryCondition([s EXCEPT !.progress.itemsCollected = count])

GameStateManager_completePuzzle(s) ==
  IF ~s.progress.puzzleCompleted
  THEN GameStateManager_checkVictoryCondition([s EXCEPT !.progress.puzzleCompleted = TRUE])
  ELSE s

GameStateManager_recordPuzzleFailure(s) ==
  LET s1 == [s EXCEPT !.progress.puzzleAttempts = @ + 1]
  IN IF s1.progress.puzzleAttempts >= maxPuzzleAttempts
     THEN GameStateManager_setGameOver(s1)
     ELSE s1

\* reset(): back to PLAYING with the progress of a new game
GameStateManager_reset(s) ==
  GameStateManager_notifyStateChange(
    [s EXCEPT !.gameState = PLAYING,
              !.progress = [itemsCollected |-> 0, puzzleCompleted |-> FALSE, puzzleAttempts |-> 0]])

(***************************************************************************)
(* SaveSystem and the save record                                          *)
(***************************************************************************)
\* JSON.stringify followed by JSON.parse gives back an equal record: its fields
\* are strings, booleans, finite numbers and arrays and objects of these.
\* timestamp and slotName are written and never read by the game, and of
\* gameProgress the game reads back puzzleCompleted only: the record of the
\* model holds the fields that are read.
SaveSystem_autoSave(s, data) == [s EXCEPT !.autoSaveSlot = <<data>>]

\* saveToSlot(1, data) and loadFromSlot(1), the latter on a slot that holds a record
SaveSystem_saveToSlot(s, data) == [s EXCEPT !.saveSlot = <<data>>]

SaveSystem_loadFromSlot(s) == s.saveSlot[1]

SaveSystem_deleteAutoSave(s) == [s EXCEPT !.autoSaveSlot = <<>>]

SaveSystem_hasAutoSave(s) == s.autoSaveSlot # <<>>

\* the record loadAutoSave() returns when hasAutoSave()
SaveSystem_loadAutoSave(s) == s.autoSaveSlot[1]

RoomScene_getPlayerPosition(s) == s.playerPos

RoomScene_getRemovedObjectIds(s) == s.removedObjectIds

Game_captureGameState(s) ==
  [inventory |-> s.items,
   gameProgress |-> [puzzleCompleted |-> s.progress.puzzleCompleted],
   playerState |-> [position |-> RoomScene_getPlayerPosition(s),
                    currentScene |-> s.currentSceneName],
   interactableObjectsRemoved |-> RoomScene_getRemovedObjectIds(s)]

Game_autoSave(s) == SaveSystem_autoSave(s, Game_captureGameState(s))

(***************************************************************************)
(* Inventory, with the listener Game registers on it                       *)
(***************************************************************************)
Inventory_getItemCount(s) == Len(s.items)

Inventory_hasItem(s, id) == \E i \in 1..Len(s.items) : s.items[i] = id

\* the onChange listener of the Game constructor
Game_onInventoryChange(s) ==
  Game_autoSave(GameStateManager_setItemsCollected(s, Inventory_getItemCount(s)))

Inventory_notifyChange(s) == Game_onInventoryChange(s)

\* addItem notifying the listeners of a rejected duplicate too
Inventory_addItem_AlwaysNotifies(s, id) ==
  IF Inventory_hasItem(s, id) THEN Inventory_notifyChange(s)
  ELSE Inventory_notifyChange([s EXCEPT !.items = Append(@, id)])

Inventory_addItem(s, id) ==
  IF Inventory_hasItem(s, id) THEN s
  ELSE Inventory_notifyChange([s EXCEPT !.items = Append(@, id)])

\* Map.delete: true, and the listeners are notified, when the item was there
Inventory_removeItem(s, id) ==
  IF Inventory_hasItem(s, id)
  THEN LET Other(item) == item # id
       IN Inventory_notifyChange([s EXCEPT !.items = SelectSeq(@, Other)])
  ELSE s

Inventory_clear(s) == Inventory_notifyChange([s EXCEPT !.items = <<>>])

(***************************************************************************)
(* RoomScene                                                               *)
(***************************************************************************)
StartPos == Pos(-400, 0, -400)

\* setupInteractableObjects(): the objects, in the order of the list
ObjectIds == <<"key1", "potion1", "coin1", "statue1", "gem1">>

ObjectType(id) == IF id = "statue1" THEN "examine" ELSE "pickup"

ObjectPosition(id) ==
  CASE id = "key1" -> Pos(-400, 20, -320)
    [] id = "potion1" -> Pos(0, 20, -400)
    [] id = "coin1" -> Pos(400, 20, -400)
    [] id = "statue1" -> Pos(-400, 20, 0)
    [] id = "gem1" -> Pos(400, 20, 0)

\* InteractableObject.interact().success
InteractableObject_interact(id) == ObjectType(id) = "pickup"

\* puzzleIndicator.position and the radius of the click that enters the puzzle
PuzzleIndicatorPos == Pos(0, 20, 0)
PuzzleClickDist == 60   \* 1.5

DistSq(a, b) == (a.x - b.x) * (a.x - b.x) + (a.y - b.y) * (a.y - b.y) + (a.z - b.z) * (a.z - b.z)

RoomScene_enter(s) ==
  [s EXCEPT !.currentCamera = "room", !.visibleScenes = @ \cup {"room"},
            !.playerPos = StartPos, !.playerPath = <<>>]

\* exit() changes visibility, hover and cursor only
RoomScene_exit(s) == [s EXCEPT !.visibleScenes = @ \ {"room"}]

RoomScene_setPlayerPosition(s, position) ==
  [s EXCEPT !.playerPos = position, !.playerPath = <<>>]

RoomScene_setRemovedObjectIds(s, ids) ==
  [s EXCEPT !.removedObjectIds = ids,
            !.interactableObjects = {o \in @ : o \notin ids}]

\* update(deltaTime), deltaTime in milliseconds.  The step is exact when it
\* reaches the waypoint or runs along one axis; Frame takes no other step.
StepIsExact(s, deltaTime) ==
  IF s.playerPath = <<>> THEN TRUE
  ELSE LET target == s.playerPath[1]
           d2 == DistSq(target, s.playerPos)
           moveDist == (playerSpeed * deltaTime) \div 1000
       IN IF d2 < ArriveDist * ArriveDist THEN TRUE
          ELSE IF moveDist * moveDist >= d2 THEN TRUE
          ELSE Cardinality({c \in {"x", "y", "z"} : target[c] # s.playerPos[c]}) = 1

Sign(n) == IF n > 0 THEN 1 ELSE IF n < 0 THEN -1 ELSE 0

\* update() that moves by speed * deltaTime without the clamp to the distance
RoomScene_update_NoClamp(s, deltaTime) ==
  IF Len(s.playerPath) > 0
  THEN LET target == s.playerPath[1]
           d2 == DistSq(target, s.playerPos)
           moveDist == (playerSpeed * deltaTime) \div 1000
       IN IF d2 < ArriveDist * ArriveDist
          THEN [s EXCEPT !.playerPos = target, !.playerPath = Tail(@)]
          ELSE [s EXCEPT !.playerPos =
                  Pos(@.x + Sign(target.x - @.x) * moveDist,
                      @.y + Sign(target.y - @.y) * moveDist,
                      @.z + Sign(target.z - @.z) * moveDist)]
  ELSE s

RoomScene_update(s, deltaTime) ==
  IF Len(s.playerPath) > 0
  THEN LET target == s.playerPath[1]
           d2 == DistSq(target, s.playerPos)
           moveDist == (playerSpeed * deltaTime) \div 1000
       IN IF d2 < ArriveDist * ArriveDist
          THEN [s EXCEPT !.playerPos = target, !.playerPath = Tail(@)]
          ELSE IF moveDist * moveDist >= d2
          THEN [s EXCEPT !.playerPos = target]
          ELSE [s EXCEPT !.playerPos =
                  Pos(@.x + Sign(target.x - @.x) * moveDist,
                      @.y + Sign(target.y - @.y) * moveDist,
                      @.z + Sign(target.z - @.z) * moveDist)]
  ELSE s

(***************************************************************************)
(* PuzzleScene and its Puzzle                                              *)
(***************************************************************************)
Playing == "Playing"
Success == "Success"
Failure == "Failure"

timerMax == 10000   \* 10 seconds

PuzzleScene_enter(s) ==
  [s EXCEPT !.currentCamera = "puzzle", !.visibleScenes = @ \cup {"puzzle"},
            !.puzzleState = Playing, !.timerElapsed = 0]

\* exit() changes visibility only
PuzzleScene_exit(s) == [s EXCEPT !.visibleScenes = @ \ {"puzzle"}]

\* the onSuccess callback: setTimeout(() => onSceneExitCallback(), 2000)
PuzzleScene_onSuccess(s) == [s EXCEPT !.exitTimers = @ + 1]

Puzzle_checkWinCondition(s, targetReached) ==
  IF targetReached /\ s.puzzleState = Playing
  THEN PuzzleScene_onSuccess([s EXCEPT !.puzzleState = Success])
  ELSE s

\* the onFailure callback changes the puzzle's own display only
Puzzle_checkFailureCondition(s, objectsFell, timeExceeded) ==
  IF (objectsFell \/ timeExceeded) /\ s.puzzleState = Playing
  THEN [s EXCEPT !.puzzleState = Failure]
  ELSE s

\* update(deltaTime); physics is what the rigid-body engine reports for this
\* step: the ball on the target ("onTarget"), below the floor ("fell"), or neither
PuzzleScene_update(s, deltaTime, physics) ==
  LET s1 == IF s.puzzleState = Playing THEN [s EXCEPT !.timerElapsed = @ + deltaTime] ELSE s
  IN IF s.puzzleState = Playing /\ s1.timerElapsed >= timerMax
     THEN [Puzzle_checkFailureCondition(s1, FALSE, TRUE) EXCEPT !.restartTimers = @ + 1]
     ELSE LET s2 == IF s1.puzzleState = Playing /\ physics = "onTarget"
                    THEN Puzzle_checkWinCondition(s1, TRUE) ELSE s1
          IN IF physics = "fell" THEN Puzzle_checkFailureCondition(s2, TRUE, FALSE) ELSE s2

(***************************************************************************)
(* SceneManager                                                            *)
(***************************************************************************)
SceneNames == {"room", "puzzle"}

Scene_enter(s, name) == IF name = "room" THEN RoomScene_enter(s) ELSE PuzzleScene_enter(s)

Scene_exit(s, name) == IF name = "room" THEN RoomScene_exit(s) ELSE PuzzleScene_exit(s)

\* the reversal closure of switchToScene, with the variables it captures
SwitchBackCallback(previousScene, playerPosition) ==
  [fn |-> "switchBack", previousScene |-> previousScene, playerPosition |-> playerPosition]

\* currentSceneName is never null after the constructor, and undoSystem and
\* getPlayerPositionCallback are set by it
SceneManager_switchToScene(s, sceneName, recordUndo) ==
  IF sceneName \notin SceneNames THEN s
  ELSE LET previousScene == s.currentSceneName
           playerPosition == RoomScene_getPlayerPosition(s)
           exited == Scene_exit(s, previousScene)
           entered == Scene_enter([exited EXCEPT !.currentSceneName = sceneName], sceneName)
       IN IF recordUndo
          THEN UndoSystem_recordSceneTransition(entered, previousScene, sceneName,
                 SwitchBackCallback(previousScene, playerPosition), playerPosition)
          ELSE entered

\* the reversal closure switching back with recording on
SceneManager_undoCallback_Records(s, previousScene, playerPosition) ==
  LET back == SceneManager_switchToScene(s, previousScene, TRUE)
  IN IF back.currentSceneName = "room"
     THEN RoomScene_setPlayerPosition(back, playerPosition)
     ELSE back

\* the body of the reversal closure; only RoomScene has setPlayerPosition
SceneManager_undoCallback(s, previousScene, playerPosition) ==
  LET back == SceneManager_switchToScene(s, previousScene, FALSE)
  IN IF back.currentSceneName = "room"
     THEN RoomScene_setPlayerPosition(back, playerPosition)
     ELSE back

(***************************************************************************)
(* Reversal procedures.  A closure is a record: fn names its code, the     *)
(* other fields are the variables it captured.                             *)
(***************************************************************************)
\* the spy callback of the harness: it only notes that it ran
SpyCallback(id) == [fn |-> "spy", id |-> id]

\* null passed where record* expects the undo callback
NullCallback == [fn |-> "null"]

\* invoked is the log of the closures that ran: a spy logs its id, the closure
\* of switchToScene is logged by the scene it switches back to
InvokeCallback(s, c) ==
  IF c.fn = "null" THEN s
  ELSE IF c.fn = "spy" THEN [s EXCEPT !.invoked = Append(@, c.id)]
  ELSE SceneManager_undoCallback([s EXCEPT !.invoked = Append(@, c.previousScene)],
                                 c.previousScene, c.playerPosition)

\* shift() in the place of pop(): the array without its first element
Pop_Shift(seq) == Tail(seq)

\* Array.pop(): the array without its last element
Pop(seq) == SubSeq(seq, 1, Len(seq) - 1)

\* undo() without the test for the empty stack, reporting success
UndoSystem_undo_NoEmptyTest(s) ==
  IF Len(s.actionStack) = 0 THEN [st |-> s, ret |-> TRUE, threw |-> FALSE]
  ELSE LET action == s.actionStack[Len(s.actionStack)]
           popped == [s EXCEPT !.actionStack = Pop(@)]
       IN IF action.undo.fn = "null"
          THEN [st |-> popped, ret |-> FALSE, threw |-> TRUE]
          ELSE [st |-> InvokeCallback(popped, action.undo), ret |-> TRUE, threw |-> FALSE]

\* undo(): the state after the call, the value returned, and whether the call
\* threw instead of returning: action.undo() on an action whose undo is null
\* is a TypeError, raised after the pop
UndoSystem_undo(s) ==
  IF Len(s.actionStack) = 0 THEN [st |-> s, ret |-> FALSE, threw |-> FALSE]
  ELSE LET action == s.actionStack[Len(s.actionStack)]
           popped == [s EXCEPT !.actionStack = Pop(@)]
       IN IF action.undo.fn = "null"
          THEN [st |-> popped, ret |-> FALSE, threw |-> TRUE]
          ELSE [st |-> InvokeCallback(popped, action.undo), ret |-> TRUE, threw |-> FALSE]

(***************************************************************************)
(* Game: the callbacks and handlers of the constructor                     *)
(***************************************************************************)
\* roomScene.setOnSceneExit callback
Game_roomSceneExit(s, targetScene) ==
  Game_autoSave(SceneManager_switchToScene(s, targetScene, TRUE))

\* puzzleScene.setOnSceneExit callback
Game_puzzleSceneExit(s) ==
  Game_autoSave(SceneManager_switchToScene(s, "room", TRUE))

Game_showUndoMessage(s) ==
  LET actionType == UndoSystem_getLastActionType(s)
      message == CASE actionType = SCENE_TRANSITION -> "Undone: Scene transition"
                   [] actionType = OBJECT_INTERACTION -> "Undone: Item pickup"
                   [] actionType = PLAYER_MOVEMENT -> "Undone: Player movement"
                   [] OTHER -> "Undone"
  IN [s EXCEPT !.toast = message]

\* the listener without the test of the game state
Game_undoKey_NoGate(s) ==
  LET r == UndoSystem_undo(s)
  IN IF r.threw THEN [r.st EXCEPT !.undoResult = "threw"]
     ELSE IF r.ret THEN Game_showUndoMessage([r.st EXCEPT !.undoResult = "undone"])
     ELSE [r.st EXCEPT !.undoResult = "nothing"]

\* the keydown listener, for Ctrl+Z / Cmd+Z; undoResult notes the branch taken
Game_undoKey(s) ==
  IF s.gameState = VICTORY \/ s.gameState = GAME_OVER
  THEN [s EXCEPT !.undoResult = "rejected"]
  ELSE LET r == UndoSystem_undo(s)
       IN IF r.threw THEN [r.st EXCEPT !.undoResult = "threw"]
          ELSE IF r.ret THEN Game_showUndoMessage([r.st EXCEPT !.undoResult = "undone"])
          ELSE [r.st EXCEPT !.undoResult = "nothing"]

\* whether the parsed record has the field; reading a field of a missing
\* field (undefined) throws a TypeError, which ends loadGameState where it is
HasField(data, field) == field \in DOMAIN data

RECURSIVE AddItems(_, _)
AddItems(s, ids) ==
  IF ids = <<>> THEN s ELSE AddItems(Inventory_addItem(s, Head(ids)), Tail(ids))

\* loadGameState without undoSystem.clear()
Game_loadGameState_NoClear(s, data) ==
  LET cleared == Inventory_clear(s)
      restored == AddItems(cleared, data.inventory)
      counted == GameStateManager_setItemsCollected(restored, Len(data.inventory))
  IN IF ~HasField(data, "gameProgress") THEN counted
     ELSE LET puzzled == IF data.gameProgress.puzzleCompleted
                         THEN GameStateManager_completePuzzle(counted) ELSE counted
              removed == RoomScene_setRemovedObjectIds(puzzled, data.interactableObjectsRemoved)
          IN IF ~HasField(data, "playerState") THEN removed
             ELSE LET switched == SceneManager_switchToScene(removed, data.playerState.currentScene, FALSE)
                  IN IF data.playerState.currentScene = "room"
                     THEN RoomScene_setPlayerPosition(switched, data.playerState.position)
                     ELSE switched

Game_loadGameState(s, data) ==
  LET cleared == Inventory_clear(UndoSystem_clear(s))
      restored == AddItems(cleared, data.inventory)
      counted == GameStateManager_setItemsCollected(restored, Len(data.inventory))
  IN IF ~HasField(data, "gameProgress") THEN counted
     ELSE LET puzzled == IF data.gameProgress.puzzleCompleted
                         THEN GameStateManager_completePuzzle(counted) ELSE counted
              removed == RoomScene_setRemovedObjectIds(puzzled, data.interactableObjectsRemoved)
          IN IF ~HasField(data, "playerState") THEN removed
             ELSE LET switched == SceneManager_switchToScene(removed, data.playerState.currentScene, FALSE)
                  IN IF data.playerState.currentScene = "room"
                     THEN RoomScene_setPlayerPosition(switched, data.playerState.position)
                     ELSE switched

\* SceneManager.update(deltaTime)
SceneManager_update(s, deltaTime, physics) ==
  IF s.currentSceneName = "room" THEN RoomScene_update(s, deltaTime)
  ELSE PuzzleScene_update(s, deltaTime, physics)

(***************************************************************************)
(* RoomScene: the click listener.  The listener stays on the canvas in     *)
(* both scenes, and the raycaster does not look at visibility.             *)
(***************************************************************************)
\* the ray hits the interactable object obj first
RoomScene_clickObject(s, obj) ==
  IF InteractableObject_interact(obj)
  THEN [Inventory_addItem(s, obj) EXCEPT !.removedObjectIds = @ \cup {obj},
                                        !.interactableObjects = @ \ {obj}]
  ELSE s

\* the movement branch adding the new path at the end of the queue
RoomScene_clickRoom_Appends(s, point) ==
  IF DistSq(point, PuzzleIndicatorPos) < PuzzleClickDist * PuzzleClickDist
  THEN Game_roomSceneExit(s, "puzzle")
  ELSE LET path == findPath(setupRooms, gridWidth, gridDepth, s.playerPos, point)
       IN IF Len(path) > 0 THEN [s EXCEPT !.playerPath = @ \o path] ELSE s

\* the ray hits no interactable object and meets a room mesh at point
RoomScene_clickRoom(s, point) ==
  IF DistSq(point, PuzzleIndicatorPos) < PuzzleClickDist * PuzzleClickDist
  THEN Game_roomSceneExit(s, "puzzle")
  ELSE LET path == findPath(setupRooms, gridWidth, gridDepth, s.playerPos, point)
       IN IF Len(path) > 0 THEN [s EXCEPT !.playerPath = path] ELSE s

(***************************************************************************)
(* Construction                                                            *)
(***************************************************************************)
Init ==
  /\ actionStack = <<>>
  /\ currentSceneName = "room"
  /\ currentCamera = "room"
  /\ visibleScenes = {"room"}
  /\ playerPos = StartPos
  /\ playerPath = <<>>
  /\ interactableObjects = {ObjectIds[i] : i \in 1..Len(ObjectIds)}
  /\ removedObjectIds = {}
  /\ puzzleState = Playing
  /\ timerElapsed = 0
  /\ exitTimers = 0
  /\ restartTimers = 0
  /\ items = <<>>
  /\ gameState = PLAYING
  /\ progress = [itemsCollected |-> 0, puzzleCompleted |-> FALSE, puzzleAttempts |-> 0]
  /\ animating = TRUE
  /\ autoSaveSlot = <<>>
  /\ saveSlot = <<>>
  /\ toast = ""
  /\ undoResult = "none"
  /\ events = 0
  /\ lastEvent = "none"
  /\ invoked = <<>>
  /\ calls = <<>>
  /\ testGrid = initializeGrid
  /\ gridCall = <<>>

(***************************************************************************)
(* The UndoSystem driven through its public methods by a harness whose     *)
(* reversal procedures are spies.  The id of a spy is the number of the    *)
(* call that recorded it.                                                  *)
(***************************************************************************)
CallRecordSceneTransition ==
  /\ Len(calls) < MaxCalls
  /\ LET id == Len(calls) + 1 IN
     /\ Becomes(UndoSystem_recordSceneTransition(St, "room", "puzzle", SpyCallback(id), StartPos))
     /\ UNCHANGED <<events, lastEvent, gridVars>>
     /\ calls' = Append(calls, [op |-> "record", type |-> SCENE_TRANSITION, cb |-> id])

CallRecordObjectInteraction ==
  /\ Len(calls) < MaxCalls
  /\ LET id == Len(calls) + 1 IN
     /\ Becomes(UndoSystem_recordObjectInteraction(St, "key1", "key1", <<>>,
                                                   ObjectPosition("key1"), SpyCallback(id)))
     /\ UNCHANGED <<events, lastEvent, gridVars>>
     /\ calls' = Append(calls, [op |-> "record", type |-> OBJECT_INTERACTION, cb |-> id])

CallRecordPlayerMovement ==
  /\ Len(calls) < MaxCalls
  /\ LET id == Len(calls) + 1 IN
     /\ Becomes(UndoSystem_recordPlayerMovement(St, StartPos, Pos(0, 0, -400), SpyCallback(id)))
     /\ UNCHANGED <<events, lastEvent, gridVars>>
     /\ calls' = Append(calls, [op |-> "record", type |-> PLAYER_MOVEMENT, cb |-> id])

CallUndo ==
  /\ Len(calls) < MaxCalls
  /\ LET r == UndoSystem_undo(St) IN
     /\ Becomes(r.st)
     /\ UNCHANGED <<events, lastEvent, gridVars>>
     /\ calls' = Append(calls, [op |-> "undo", ret |-> r.ret, threw |-> r.threw])

CallClear ==
  /\ Len(calls) < MaxCalls
  /\ Becomes(UndoSystem_clear(St))
  /\ UNCHANGED <<events, lastEvent, gridVars>>
  /\ calls' = Append(calls, [op |-> "clear"])

NextUndo ==
  \/ CallRecordSceneTransition
  \/ CallRecordObjectInteraction
  \/ CallRecordPlayerMovement
  \/ CallUndo
  \/ CallClear

SpecUndo == Init /\ [][NextUndo]_vars

\* a caller that passes null for the undo callback; the call returns normally,
\* which the entry of the trace notes as threw |-> FALSE
CallRecordWithoutReversal ==
  /\ Len(calls) < MaxCalls
  /\ Becomes(UndoSystem_recordObjectInteraction(St, "key1", "key1", <<>>,
                                                ObjectPosition("key1"), NullCallback))
  /\ UNCHANGED <<events, lastEvent, gridVars>>
  /\ calls' = Append(calls, [op |-> "recordNull", type |-> OBJECT_INTERACTION, threw |-> FALSE])

NextUndoNull ==
  \/ CallRecordWithoutReversal
  \/ CallRecordPlayerMovement
  \/ CallUndo
  \/ CallClear

SpecUndoNull == Init /\ [][NextUndoNull]_vars


(***************************************************************************)
(* The grid of a RoomScene and its findPath, driven by a harness: on a     *)
(* scene whose grid is TestGridWidth by TestGridDepth cells, which the     *)
(* harness marks rectangle by rectangle, and on the constructed scene.     *)
(***************************************************************************)
TestCells == (0..(TestGridWidth - 1)) \X (0..(TestGridDepth - 1))

\* the rectangles the harness builds its grids from, as setupRooms builds the
\* floor plan from rooms and corridors: the strips one cell wide along x and
\* along z, which reach half a cell over the border of the grid at both ends
BuildRects ==
  {[x |-> (TestGridWidth * gridSize) \div 2 - gridOffsetX, z |-> CellCentre(<<0, j>>).z,
    width |-> (TestGridWidth + 1) * gridSize, depth |-> gridSize] : j \in 0..(TestGridDepth - 1)}
  \cup
  {[x |-> CellCentre(<<i, 0>>).x, z |-> (TestGridDepth * gridSize) \div 2 - gridOffsetZ,
    width |-> gridSize, depth |-> (TestGridDepth + 1) * gridSize] : i \in 0..(TestGridWidth - 1)}

\* the rectangles the harness marks twice: the strips, and centred on each cell
\* a rectangle one cell wide and one two and a half cells wide
TestRects ==
  BuildRects \cup
  {[x |-> CellCentre(c).x, z |-> CellCentre(c).z, width |-> w, depth |-> w] :
     c \in TestCells, w \in {gridSize, (5 * gridSize) \div 2}}

\* a point of a cell that is not its centre
PointIn(cell) ==
  Pos(cell[1] * gridSize - gridOffsetX + gridSize \div 4, 0,
      cell[2] * gridSize - gridOffsetZ + (3 * gridSize) \div 4)

\* the start and goal points of the harness: one in each cell of the grid, one
\* left of the grid and one behind it
TestPoints ==
  {PointIn(c) : c \in TestCells} \cup {PointIn(<<-1, 0>>), PointIn(<<0, TestGridDepth>>)}

\* the goals on the constructed scene: the central room, the agent's own room,
\* the ground between the rooms, and a point outside the grid
FloorGoals == {Pos(0, 0, 0), Pos(-370, 0, -390), Pos(-200, 0, -200), Pos(640, 0, 0)}

\* a call of findPath on the grid, what it returned, and the open list at the
\* return when the search loop was entered
FindPathCall(grid, gw, gd, start, end) ==
  LET search == findPathSearch(grid, gw, gd, start, end)
  IN [op |-> "findPath", grid |-> grid, gw |-> gw, gd |-> gd, start |-> start, end |-> end,
      path |-> search.path,
      searched |-> search.searched, open |-> search.open]

\* the harness marks one more rectangle of the grid it is building
CallSetWalkableArea ==
  /\ gridCall = <<>>
  /\ \E r \in BuildRects :
       testGrid' = setWalkableArea(testGrid, TestGridWidth, TestGridDepth,
                                   r.x, r.z, r.width, r.depth)
  /\ UNCHANGED <<actionStack, gameVars, events, lastEvent, invoked, calls, gridCall>>

\* the harness marks the same rectangle twice and keeps the grid after each call
CallSetWalkableAreaTwice ==
  /\ gridCall = <<>>
  /\ \E r \in TestRects :
       LET once == setWalkableArea(testGrid, TestGridWidth, TestGridDepth,
                                   r.x, r.z, r.width, r.depth)
           twice == setWalkableArea(once, TestGridWidth, TestGridDepth,
                                    r.x, r.z, r.width, r.depth)
       IN /\ testGrid' = twice
          /\ gridCall' = <<[op |-> "setWalkableArea", rect |-> r, before |-> testGrid,
                            once |-> once, twice |-> twice]>>
  /\ UNCHANGED <<actionStack, gameVars, events, lastEvent, invoked, calls>>

\* the harness calls findPath on the grid it has built
CallFindPath ==
  /\ gridCall = <<>>
  /\ \E start \in TestPoints : \E end \in TestPoints :
       gridCall' = <<FindPathCall(testGrid, TestGridWidth, TestGridDepth, start, end)>>
  /\ UNCHANGED <<actionStack, gameVars, events, lastEvent, invoked, calls, testGrid>>

\* findPath on the constructed scene, from the agent's start position
CallFindPathOnFloorPlan ==
  /\ gridCall = <<>>
  /\ testGrid = initializeGrid
  /\ \E end \in FloorGoals :
       gridCall' = <<FindPathCall(setupRooms, gridWidth, gridDepth, StartPos, end)>>
  /\ UNCHANGED <<actionStack, gameVars, events, lastEvent, invoked, calls, testGrid>>

NextPath ==
  \/ CallSetWalkableArea
  \/ CallSetWalkableAreaTwice
  \/ CallFindPath
  \/ CallFindPathOnFloorPlan

SpecPath == Init /\ [][NextPath]_vars

(***************************************************************************)
(* The game: one action per event handler                                  *)
(***************************************************************************)
\* the frame times the model takes, in milliseconds: a 25 Hz frame and the
\* frame after the tab was in the background for five seconds
FrameTimes == {40, 5000}

\* the points of the room meshes the user clicks: two cells of the first room,
\* the top of its west wall, 0.2 thick about x = -13, over the half that lies
\* outside the room, and the puzzle indicator
ClickPoints == {Pos(-370, 0, -390), Pos(-390, 0, -350), Pos(-522, 60, -400), Pos(10, 0, -20)}

\* one event of the game, whose handler leaves the program in state r
GameStep(handler, r) ==
  /\ events < MaxEvents
  /\ events' = events + 1
  /\ lastEvent' = handler
  /\ Becomes(r)
  /\ UNCHANGED <<calls, gridVars>>

ClickObject ==
  \E obj \in interactableObjects :
    GameStep("ClickObject", RoomScene_clickObject(St, obj))

\* a click that finds no path empties the queue
ClickRoom_StopsAgent ==
  \E point \in ClickPoints :
    GameStep("ClickRoom",
             IF /\ DistSq(point, PuzzleIndicatorPos) >= PuzzleClickDist * PuzzleClickDist
                /\ Len(findPath(setupRooms, gridWidth, gridDepth, playerPos, point)) = 0
             THEN [St EXCEPT !.playerPath = <<>>]
             ELSE RoomScene_clickRoom(St, point))

ClickRoom ==
  \E point \in ClickPoints : GameStep("ClickRoom", RoomScene_clickRoom(St, point))

KeyUndo == GameStep("KeyUndo", Game_undoKey(St))

\* Game.animate: one animation frame
Frame ==
  /\ animating
  /\ \E deltaTime \in FrameTimes : \E physics \in {"none", "onTarget", "fell"} :
       /\ currentSceneName = "room" => (physics = "none" /\ StepIsExact(St, deltaTime))
       /\ currentSceneName = "puzzle" => deltaTime = 5000
       /\ GameStep("Frame", SceneManager_update(St, deltaTime, physics))

\* the timeout of the puzzle's success fires
ExitTimerFires ==
  /\ exitTimers > 0
  /\ GameStep("ExitTimerFires", Game_puzzleSceneExit([St EXCEPT !.exitTimers = @ - 1]))

\* the timeout of the timer expiry fires
RestartTimerFires ==
  /\ restartTimers > 0
  /\ GameStep("RestartTimerFires", PuzzleScene_enter([St EXCEPT !.restartTimers = @ - 1]))

\* the Load Auto-Save button of the save menu
LoadAutoSave ==
  /\ SaveSystem_hasAutoSave(St)
  /\ GameStep("LoadAutoSave", Game_loadGameState(St, SaveSystem_loadAutoSave(St)))

\* the puzzle scene, which holds the GameStateManager, reports a solved puzzle
PuzzleCompleted ==
  /\ currentSceneName = "puzzle" /\ animating
  /\ GameStep("PuzzleCompleted", GameStateManager_completePuzzle(St))

\* the puzzle scene reports a failed attempt
PuzzleFailed ==
  /\ currentSceneName = "puzzle" /\ animating
  /\ GameStep("PuzzleFailed", GameStateManager_recordPuzzleFailure(St))

Next ==
  \/ ClickObject
  \/ ClickRoom
  \/ KeyUndo
  \/ Frame
  \/ ExitTimerFires
  \/ RestartTimerFires
  \/ LoadAutoSave
  \/ PuzzleCompleted
  \/ PuzzleFailed

Spec == Init /\ [][Next]_vars

\* a record as captureGameState builds it, saved by an earlier session
SlotRecord ==
  [inventory |-> <<"key1">>,
   gameProgress |-> [puzzleCompleted |-> FALSE],
   playerState |-> [position |-> StartPos, currentScene |-> "room"],
   interactableObjectsRemoved |-> {"key1"}]

\* the record without one of its fields
DropField(data, field) == [f \in DOMAIN data \ {field} |-> data[f]]

\* stored records that parse and pass the save menu, which reads playerState
\* and inventory of a record to list it, but lack a field
IncompleteSaves == {DropField(SlotRecord, "gameProgress")}

\* the Load button of the save menu on a slot that holds an incomplete record
LoadIncompleteSave ==
  \E data \in IncompleteSaves :
    GameStep("LoadIncompleteSave", Game_loadGameState(St, data))

\* the Save Here or Overwrite button of slot 1
SaveToSlot ==
  GameStep("SaveToSlot", SaveSystem_saveToSlot(St, Game_captureGameState(St)))

\* the Load button of slot 1, shown when the slot holds a record
LoadSlot ==
  /\ saveSlot # <<>>
  /\ GameStep("LoadSlot", Game_loadGameState(St, SaveSystem_loadFromSlot(St)))

NextLoad ==
  \/ Next
  \/ LoadIncompleteSave
  \/ SaveToSlot
  \/ LoadSlot

SpecLoad == Init /\ [][NextLoad]_vars

(***************************************************************************)
(* The GameStateManager driven through its public methods, with the        *)
(* listener of the Game constructor registered on it.  lastEvent holds the *)
(* method of the last call.                                                *)
(***************************************************************************)
\* the most failed attempts the harness records
MaxAttempts == 5

\* the counts the harness passes to setItemsCollected
ItemCounts == 0..(requiredItems + 1)

StateCall(method, r) ==
  /\ Becomes(r)
  /\ lastEvent' = method
  /\ UNCHANGED <<events, calls, gridVars>>

CallSetItemsCollected ==
  \E count \in ItemCounts :
    StateCall("setItemsCollected", GameStateManager_setItemsCollected(St, count))

CallCompletePuzzle == StateCall("completePuzzle", GameStateManager_completePuzzle(St))

CallRecordPuzzleFailure ==
  /\ progress.puzzleAttempts < MaxAttempts
  /\ StateCall("recordPuzzleFailure", GameStateManager_recordPuzzleFailure(St))

CallReset == StateCall("reset", GameStateManager_reset(St))

NextState ==
  \/ CallSetItemsCollected
  \/ CallCompletePuzzle
  \/ CallRecordPuzzleFailure
  \/ CallReset

SpecState == Init /\ [][NextState]_vars

(***************************************************************************)
(* The Inventory of a Game driven through its public methods, with saves   *)
(* and loads in between.  calls holds the last call and what it returned.  *)
(***************************************************************************)
\* the items the harness adds and removes: the items of the pickup objects
ItemIds == {ObjectIds[i] : i \in {j \in 1..Len(ObjectIds) : ObjectType(ObjectIds[j]) = "pickup"}}

InventoryCall(call, r) ==
  /\ Becomes(r)
  /\ calls' = <<call>>
  /\ UNCHANGED <<events, lastEvent, gridVars>>

CallAddItem ==
  \E id \in ItemIds :
    InventoryCall([op |-> "addItem", id |-> id, ret |-> ~Inventory_hasItem(St, id)],
                  Inventory_addItem(St, id))

CallRemoveItem ==
  \E id \in ItemIds :
    InventoryCall([op |-> "removeItem", id |-> id, ret |-> Inventory_hasItem(St, id)],
                  Inventory_removeItem(St, id))

CallInventoryClear == InventoryCall([op |-> "clear"], Inventory_clear(St))

CallSaveToSlot ==
  InventoryCall([op |-> "saveToSlot"], SaveSystem_saveToSlot(St, Game_captureGameState(St)))

CallLoadGameState ==
  /\ saveSlot # <<>>
  /\ InventoryCall([op |-> "loadGameState"], Game_loadGameState(St, SaveSystem_loadFromSlot(St)))

CallDeleteAutoSave == InventoryCall([op |-> "deleteAutoSave"], SaveSystem_deleteAutoSave(St))

NextInventory ==
  \/ CallAddItem
  \/ CallRemoveItem
  \/ CallInventoryClear
  \/ CallSaveToSlot
  \/ CallLoadGameState
  \/ CallDeleteAutoSave

SpecInventory == Init /\ [][NextInventory]_vars

(***************************************************************************)
(* Claims about the UndoSystem, checked under SpecUndo                     *)
(***************************************************************************)
IsRecord(j) == calls[j].op = "record"
IsUndo(j) == calls[j].op = "undo"

\* the calls i+1..i+n are records and the calls i+n+1..i+n+k, the last ones made, are undos
RecordsThenUndos(i, n, k) ==
  /\ i + n + k = Len(calls)
  /\ \A j \in (i + 1)..(i + n) : IsRecord(j)
  /\ \A j \in (i + n + 1)..(i + n + k) : IsUndo(j)

\* the last k spies invoked
LastInvoked(k) == SubSeq(invoked, Len(invoked) - k + 1, Len(invoked))

\* the number of undo() calls among the first j calls that returned true
UndoneBy(j) == Cardinality({l \in 1..j : IsUndo(l) /\ calls[l].ret})

\* C1: after n record calls and then k <= n undo calls, every one of these undo
\* calls has returned true and the spies have run in the reverse of the recording
\* order, each once; when the n records started from an empty stack, the
\* (n+1)-th undo returns false and invokes nothing.
UndoIsLIFO ==
  \A i \in 0..Len(calls) : \A n \in 1..Len(calls) : \A k \in 1..(n + 1) :
    RecordsThenUndos(i, n, k) =>
      /\ k <= n =>
           /\ \A j \in (i + n + 1)..(i + n + k) : calls[j].ret = TRUE
           /\ Len(invoked) >= k
           /\ LastInvoked(k) = [m \in 1..k |-> calls[i + n + 1 - m].cb]
           /\ Len(invoked) = UndoneBy(Len(calls))
      /\ (k = n + 1 /\ (i = 0 \/ calls[i].op = "clear")) =>
           /\ calls[Len(calls)].ret = FALSE
           /\ LastInvoked(n) = [m \in 1..n |-> calls[i + n + 1 - m].cb]
           /\ Len(invoked) = UndoneBy(Len(calls))

\* three records A, B, C from a new UndoSystem, then four undos
UndoIsLIFO_Witness ==
  /\ Len(calls) = 7
  /\ RecordsThenUndos(0, 3, 4)
  /\ invoked = <<3, 2, 1>>
  /\ calls[7].ret = FALSE

ClearDiscards ==
  \A j \in 1..Len(calls) :
    (calls[j].op = "clear" /\ \A l \in (j + 1)..Len(calls) : IsUndo(l)) =>
      /\ actionStack = <<>>
      /\ \A l \in (j + 1)..Len(calls) : calls[l].ret = FALSE
      /\ Len(invoked) = UndoneBy(j - 1)

\* clear() after three records, then undo()
ClearDiscards_Witness ==
  /\ Len(calls) >= 5
  /\ \A j \in 1..3 : IsRecord(j)
  /\ calls[4].op = "clear"
  /\ IsUndo(5)
  /\ invoked = <<>>

\* C4: each record call, at any depth of the stack, makes getActionCount() one
\* larger, keeps every older action in place and makes the kind of the new action
\* the value of getLastActionType().
RecordAlwaysPushes ==
  [][(CallRecordSceneTransition \/ CallRecordObjectInteraction \/ CallRecordPlayerMovement) =>
       /\ Len(actionStack') = Len(actionStack) + 1
       /\ SubSeq(actionStack', 1, Len(actionStack)) = actionStack
       /\ actionStack'[Len(actionStack')].type = calls'[Len(calls')].type]_vars

\* the stack holds as many actions as the harness can record, of all three kinds
RecordAlwaysPushes_Witness ==
  /\ Len(actionStack) = Len(calls)
  /\ Len(actionStack) >= 7
  /\ {actionStack[j].type : j \in 1..Len(actionStack)}
       = {SCENE_TRANSITION, OBJECT_INTERACTION, PLAYER_MOVEMENT}
  /\ UndoSystem_getActionCount(St) = Len(calls)
  /\ UndoSystem_getLastActionType(St) = calls[Len(calls)].type

(***************************************************************************)
(* Claims about undo in the game, checked under Spec                       *)
(***************************************************************************)
Terminal == gameState = VICTORY \/ gameState = GAME_OVER

\* the action undo() would pop
Top == actionStack[Len(actionStack)]

\* the undo key is handled and undo() pops an action
UndoPops == KeyUndo /\ ~Terminal /\ actionStack # <<>>

\* C5: undoing a scene transition that switchToScene recorded pushes nothing:
\* the stack holds exactly one action fewer after the undo than before it.
SceneUndoPopsOne ==
  [][(UndoPops /\ Top.type = SCENE_TRANSITION) =>
       Len(actionStack') = Len(actionStack) - 1]_vars

\* two recorded scene transitions have been undone, one after the other, down to
\* the empty stack
SceneUndoPopsOne_Witness ==
  /\ lastEvent = "KeyUndo"
  /\ undoResult = "undone"
  /\ Len(invoked) >= 2
  /\ actionStack = <<>>

\* C6: the undo of a recorded scene transition from scene A with the agent at p
\* makes A the current scene, puts the agent exactly at p and empties its
\* waypoint queue.
SceneUndoRoundTrip ==
  [][(UndoPops /\ Top.type = SCENE_TRANSITION) =>
       /\ currentSceneName' = Top.data.fromScene
       /\ playerPos' = Top.data.playerPosition
       /\ playerPath' = <<>>]_vars

\* C7: loading a save leaves the undo stack empty, whatever it held, and runs no
\* reversal procedure; an undo request after it has nothing to invoke.
LoadClearsUndo ==
  [][LoadAutoSave =>
       /\ actionStack' = <<>>
       /\ ~UndoSystem_canUndo(St')
       /\ invoked' = invoked]_vars

\* the second event was a load and it is the puzzle scene that was saved: the
\* first event was the click that entered the puzzle scene and recorded the
\* transition; no reversal has run and the stack is empty
LoadClearsUndo_Witness ==
  /\ events = 2
  /\ lastEvent = "LoadAutoSave"
  /\ currentSceneName = "puzzle"
  /\ toast = ""
  /\ invoked = <<>>
  /\ actionStack = <<>>

\* C8: in the states VICTORY and GAME_OVER an undo request does not reach
\* undo(): the stack, the scene, the inventory and the agent stay as they are
\* and no reversal procedure runs.
UndoRejectedWhenTerminal ==
  [][(KeyUndo /\ Terminal) =>
       /\ UNCHANGED <<actionStack, currentSceneName, items, playerPos, playerPath>>
       /\ invoked' = invoked]_vars

\* an undo request was handled in a terminal state with an action on the stack
UndoRejectedWhenTerminal_Witness ==
  /\ lastEvent = "KeyUndo"
  /\ undoResult = "rejected"
  /\ Terminal
  /\ actionStack # <<>>

\* the click handler picks up the object obj
PicksUp(obj) ==
  /\ obj \in interactableObjects
  /\ ObjectType(obj) = "pickup"
  /\ GameStep("ClickObject", RoomScene_clickObject(St, obj))

\* C9: a pickup records one Object Interaction action, and the undo of that
\* action gives the inventory the item list it had before the pickup, puts the
\* object back in the world at its position and takes its id out of the
\* removed-object set.
PickupUndoRoundTrip ==
  [][/\ \A obj \in interactableObjects : PicksUp(obj) =>
          /\ Len(actionStack') = Len(actionStack) + 1
          /\ actionStack'[Len(actionStack')].type = OBJECT_INTERACTION
          /\ actionStack'[Len(actionStack')].data.objectId = obj
          /\ actionStack'[Len(actionStack')].data.inventoryStateBefore = items
          /\ actionStack'[Len(actionStack')].data.objectPosition = ObjectPosition(obj)
     /\ (UndoPops /\ Top.type = OBJECT_INTERACTION) =>
          /\ items' = Top.data.inventoryStateBefore
          /\ Top.data.objectId \in interactableObjects'
          /\ Top.data.objectId \notin removedObjectIds']_vars

\* the click handler starts a path to point
StartsPath(point) ==
  /\ DistSq(point, PuzzleIndicatorPos) >= PuzzleClickDist * PuzzleClickDist
  /\ Len(findPath(setupRooms, gridWidth, gridDepth, playerPos, point)) > 0
  /\ GameStep("ClickRoom", RoomScene_clickRoom(St, point))

\* C10: a click-to-move command that starts a path records one Player Movement
\* action whose 'from' is the agent's position before the command, and the undo
\* of that action puts the agent exactly there and empties its waypoint queue.
MoveUndoRoundTrip ==
  [][/\ \A point \in ClickPoints : StartsPath(point) =>
          /\ Len(actionStack') = Len(actionStack) + 1
          /\ actionStack'[Len(actionStack')].type = PLAYER_MOVEMENT
          /\ actionStack'[Len(actionStack')].data.fromPosition = playerPos
     /\ (UndoPops /\ Top.type = PLAYER_MOVEMENT) =>
          /\ playerPos' = Top.data.fromPosition
          /\ playerPath' = <<>>]_vars

(***************************************************************************)
(* Claims about the grid and findPath, checked under SpecPath              *)
(***************************************************************************)
\* the harness has called findPath; TheCall is that call
FindPathCalled == gridCall # <<>> /\ gridCall[1].op = "findPath"
TheCall == gridCall[1]

\* the cell a world position maps to
CellOf(p) == <<CellX(p.x), CellZ(p.z)>>

InGrid(cell, gw, gd) == cell[1] >= 0 /\ cell[1] < gw /\ cell[2] >= 0 /\ cell[2] < gd

Adjacent(a, b) == Abs(a[1] - b[1]) + Abs(a[2] - b[2]) = 1

\* the walkable cells of the grid one 4-directional step away from a cell of cells
StepsFrom(grid, gw, gd, cells) ==
  {n \in {<<c[1] + o[1], c[2] + o[2]>> : c \in cells, o \in {<<0, -1>>, <<0, 1>>, <<-1, 0>>, <<1, 0>>}} :
     InGrid(n, gw, gd) /\ n \in grid}

\* breadth-first search: the number of 4-directional steps onto walkable cells
\* that lead from the cells of frontier, which are d steps from the start, to
\* goal; -1 when no such steps lead there
RECURSIVE BfsSteps(_, _, _, _, _, _, _)
BfsSteps(grid, gw, gd, frontier, seen, goal, d) ==
  IF goal \in frontier THEN d
  ELSE IF frontier = {} THEN -1
  ELSE LET next == StepsFrom(grid, gw, gd, frontier) \ seen
       IN BfsSteps(grid, gw, gd, next, seen \cup next, goal, d + 1)

ShortestSteps(grid, gw, gd, from, to) == BfsSteps(grid, gw, gd, {from}, {from}, to, 0)

\* start and goal of the call are walkable cells of the grid joined by
\* 4-directional walkable steps
ConnectedCall ==
  /\ FindPathCalled
  /\ InGrid(CellOf(TheCall.start), TheCall.gw, TheCall.gd)
  /\ InGrid(CellOf(TheCall.end), TheCall.gw, TheCall.gd)
  /\ CellOf(TheCall.start) \in TheCall.grid
  /\ CellOf(TheCall.end) \in TheCall.grid
  /\ ShortestSteps(TheCall.grid, TheCall.gw, TheCall.gd,
                   CellOf(TheCall.start), CellOf(TheCall.end)) >= 0

\* C11: when start and goal are walkable cells joined by 4-directional walkable
\* steps, findPath returns waypoints, each the centre of a walkable cell of the
\* grid, consecutive ones in 4-directionally adjacent cells, the last one in
\* the goal cell.
PathIsValid ==
  ConnectedCall =>
    LET path == TheCall.path
    IN /\ Len(path) > 0
       /\ \A i \in 1..Len(path) :
            /\ path[i] = CellCentre(CellOf(path[i]))
            /\ InGrid(CellOf(path[i]), TheCall.gw, TheCall.gd)
            /\ CellOf(path[i]) \in TheCall.grid
       /\ \A i \in 1..(Len(path) - 1) : Adjacent(CellOf(path[i]), CellOf(path[i + 1]))
       /\ CellOf(path[Len(path)]) = CellOf(TheCall.end)

\* a path of four steps or more on a grid of the harness that has a cell that
\* is not walkable next to the start
PathIsValid_Witness ==
  /\ ConnectedCall
  /\ TheCall.gw = TestGridWidth
  /\ Len(TheCall.path) >= 5
  /\ \E c \in TestCells : c \notin TheCall.grid /\ Adjacent(c, CellOf(TheCall.start))

\* the cells of the route of a call: the start cell, then the cells of the
\* waypoints
RouteCells(call) ==
  <<CellOf(call.start)>> \o [i \in 1..Len(call.path) |-> CellOf(call.path[i])]

\* the number of steps of the route: the changes of cell along it
RouteSteps(call) ==
  Cardinality({i \in 1..(Len(RouteCells(call)) - 1) :
                 RouteCells(call)[i] # RouteCells(call)[i + 1]})

\* C12: when start and goal are walkable cells joined by walkable steps, the
\* route findPath returns takes exactly as many steps from the start cell to the
\* goal cell as the shortest path breadth-first search finds on the same grid.
PathIsShortest ==
  ConnectedCall =>
    RouteSteps(TheCall) = ShortestSteps(TheCall.grid, TheCall.gw, TheCall.gd,
                                        CellOf(TheCall.start), CellOf(TheCall.end))

\* a call on a grid of the harness where the shortest path is a detour: it is
\* longer than the distance in cells between start and goal
PathIsShortest_Witness ==
  /\ ConnectedCall
  /\ TheCall.gw = TestGridWidth
  /\ RouteSteps(TheCall) >= 4
  /\ RouteSteps(TheCall) > Abs(CellOf(TheCall.start)[1] - CellOf(TheCall.end)[1])
                           + Abs(CellOf(TheCall.start)[2] - CellOf(TheCall.end)[2])

\* the goal of the call is in the grid and walkable, the start is in the grid,
\* and no 4-directional walkable steps lead from the start cell to the goal
DisconnectedCall ==
  /\ FindPathCalled
  /\ InGrid(CellOf(TheCall.start), TheCall.gw, TheCall.gd)
  /\ InGrid(CellOf(TheCall.end), TheCall.gw, TheCall.gd)
  /\ CellOf(TheCall.end) \in TheCall.grid
  /\ ShortestSteps(TheCall.grid, TheCall.gw, TheCall.gd,
                   CellOf(TheCall.start), CellOf(TheCall.end)) = -1

\* C13: findPath returns the empty list when the start or the goal maps outside
\* the grid, when the goal cell is not walkable, and when no walkable steps lead
\* from the start cell to the goal; in the last case the search loop has run
\* and ended with the open list empty.
NoPathIsEmpty ==
  FindPathCalled =>
    /\ ~InGrid(CellOf(TheCall.start), TheCall.gw, TheCall.gd) => TheCall.path = <<>>
    /\ ~InGrid(CellOf(TheCall.end), TheCall.gw, TheCall.gd) => TheCall.path = <<>>
    /\ (/\ InGrid(CellOf(TheCall.end), TheCall.gw, TheCall.gd)
        /\ CellOf(TheCall.end) \notin TheCall.grid) => TheCall.path = <<>>
    /\ DisconnectedCall =>
         /\ TheCall.path = <<>>
         /\ TheCall.searched
         /\ TheCall.open = <<>>

\* a search that opened cells beside the start and did not reach the goal, on a
\* grid of the harness
NoPathIsEmpty_Witness ==
  /\ DisconnectedCall
  /\ TheCall.gw = TestGridWidth
  /\ CellOf(TheCall.start) \in TheCall.grid
  /\ \E c \in TheCall.grid : Adjacent(c, CellOf(TheCall.start))
  /\ TheCall.path = <<>>

\* findPath was called on the constructed floor plan, from the agent's start
\* position to the centre of the middle room
FloorPlanCall ==
  /\ FindPathCalled
  /\ TheCall.grid = setupRooms
  /\ TheCall.gw = gridWidth /\ TheCall.gd = gridDepth
  /\ TheCall.start = StartPos
  /\ TheCall.end = Pos(0, 0, 0)

\* the square of the distance in the ground plane
FlatDistSq(a, b) == (a.x - b.x) * (a.x - b.x) + (a.z - b.z) * (a.z - b.z)

\* C18, as claimed: on the floor plan findPath from (-10,0,-10) to (0,0,0)
\* returns a non-empty list whose last element is within 0.5 world units (20)
\* of (0,0,0), the distance being that of the two points in space, and whose
\* cells are all walkable
FloorPlanPathEndsNearGoal ==
  FloorPlanCall =>
    LET path == TheCall.path
    IN /\ Len(path) > 0
       /\ DistSq(path[Len(path)], TheCall.end) <= 20 * 20
       /\ \A i \in 1..Len(path) : CellOf(path[i]) \in setupRooms

\* C18, amended: on the floor plan findPath from (-10,0,-10) to (0,0,0)
\* returns a non-empty list whose last element is within 0.5 world units (20)
\* of (0,0,0) in the ground plane, at the height 0.4 of every waypoint, and
\* whose cells are all walkable
FloorPlanPathEndsInGoalCell ==
  FloorPlanCall =>
    LET path == TheCall.path
    IN /\ Len(path) > 0
       /\ FlatDistSq(path[Len(path)], TheCall.end) <= 20 * 20
       /\ path[Len(path)].y = WaypointY
       /\ \A i \in 1..Len(path) : CellOf(path[i]) \in setupRooms

\* the call on the floor plan returned the route of 40 steps, through the
\* corridors between the rooms
FloorPlanPathEndsInGoalCell_Witness ==
  /\ FloorPlanCall
  /\ Len(TheCall.path) = 41
  /\ \E i \in 1..Len(TheCall.path) : Abs(TheCall.path[i].x) > roomSize \div 2 /\ Abs(TheCall.path[i].x) < spacing - roomSize \div 2

SetWalkableAreaCalled == gridCall # <<>> /\ gridCall[1].op = "setWalkableArea"

\* the cells of the grid that a rectangle covers
CellsOfRect(r) ==
  setWalkableArea(initializeGrid, TestGridWidth, TestGridDepth, r.x, r.z, r.width, r.depth)

\* C19: marking a rectangle walkable a second time with the same arguments
\* leaves the grid as the first call made it, and no call makes a walkable
\* cell unwalkable
MarkingIsIdempotent ==
  SetWalkableAreaCalled =>
    /\ TheCall.twice = TheCall.once
    /\ testGrid = TheCall.once
    /\ TheCall.before \subseteq TheCall.once
    /\ TheCall.once \subseteq TheCall.twice

\* a rectangle marked twice on a grid where it covers cells that were
\* walkable, cells that were not, and leaves walkable cells outside it
MarkingIsIdempotent_Witness ==
  /\ SetWalkableAreaCalled
  /\ CellsOfRect(TheCall.rect) \cap TheCall.before # {}
  /\ CellsOfRect(TheCall.rect) \ TheCall.before # {}
  /\ TheCall.before \ CellsOfRect(TheCall.rect) # {}

\* findPath returned a path for a start and a goal in different cells
PathBetweenCells ==
  /\ FindPathCalled
  /\ Len(TheCall.path) > 0
  /\ CellOf(TheCall.start) # CellOf(TheCall.end)

\* C20, as claimed: for start and goal in different cells the list findPath
\* returns does not contain the start cell, and its first element is the
\* centre of the cell that follows the start cell on the route
PathExcludesStartCell ==
  PathBetweenCells =>
    LET path == TheCall.path
    IN /\ \A i \in 1..Len(path) : CellOf(path[i]) # CellOf(TheCall.start)
       /\ path[1] = CellCentre(CellOf(path[1]))
       /\ Adjacent(CellOf(TheCall.start), CellOf(path[1]))

\* C20, amended: for start and goal in different cells the list findPath
\* returns begins with the centre of the start cell, which it holds once, and
\* its second element is the centre of the cell that follows the start cell on
\* the route
PathBeginsWithStartCell ==
  PathBetweenCells =>
    LET path == TheCall.path
    IN /\ path[1] = CellCentre(CellOf(TheCall.start))
       /\ Len(path) >= 2
       /\ \A i \in 2..Len(path) : CellOf(path[i]) # CellOf(TheCall.start)
       /\ path[2] = CellCentre(CellOf(path[2]))
       /\ Adjacent(CellOf(TheCall.start), CellOf(path[2]))

\* a path of three cells or more on a grid of the harness, from a start that
\* is not the centre of its cell
PathBeginsWithStartCell_Witness ==
  /\ PathBetweenCells
  /\ TheCall.gw = TestGridWidth
  /\ Len(TheCall.path) >= 3
  /\ TheCall.start.x # TheCall.path[1].x

\* the in-bounds cells of the harness grid whose centre lies inside the
\* rectangle [x - width/2, x + width/2] x [z - depth/2, z + depth/2]
CentreCells(r) ==
  {c \in TestCells : /\ 2 * CellCentre(c).x >= 2 * r.x - r.width
                     /\ 2 * CellCentre(c).x <= 2 * r.x + r.width
                     /\ 2 * CellCentre(c).z >= 2 * r.z - r.depth
                     /\ 2 * CellCentre(c).z <= 2 * r.z + r.depth}

\* C21: setWalkableArea marks exactly the cells of the grid whose centre lies
\* inside the rectangle, whether or not the edges of the rectangle fall on
\* cell borders, and leaves every other cell as it was
MarksCellsWithCentreInside ==
  SetWalkableAreaCalled => TheCall.once = TheCall.before \cup CentreCells(TheCall.rect)

(***************************************************************************)
(* Claims about a missing undo callback, checked under SpecUndoNull        *)
(***************************************************************************)
\* C16: a record call that is given no undo callback fails at the call and
\* pushes nothing, so no later undo() pops an action it cannot reverse
RecordWithoutReversalFails ==
  [][/\ CallRecordWithoutReversal =>
          /\ calls'[Len(calls')].threw
          /\ actionStack' = actionStack
     /\ CallUndo => ~calls'[Len(calls')].threw]_vars

(***************************************************************************)
(* Claims about incomplete save records, checked under SpecLoad            *)
(***************************************************************************)
\* C17: loading a save record that parses but lacks a field applies none of
\* it: the undo log, the inventory, the game progress, the removed-object
\* set, the scene and the player position are as they were before the load
IncompleteLoadChangesNothing ==
  [][lastEvent' = "LoadIncompleteSave" /\ events' = events + 1 =>
       /\ actionStack' = actionStack
       /\ items' = items
       /\ progress' = progress
       /\ removedObjectIds' = removedObjectIds
       /\ currentSceneName' = currentSceneName
       /\ playerPos' = playerPos]_vars

(***************************************************************************)
(* Claims about the undo confirmation and loading, checked under Spec      *)
(***************************************************************************)
\* the confirmation that names an action kind
MessageNaming(type) ==
  CASE type = SCENE_TRANSITION -> "Undone: Scene transition"
    [] type = OBJECT_INTERACTION -> "Undone: Item pickup"
    [] type = PLAYER_MOVEMENT -> "Undone: Player movement"

\* C14: after an undo requested with the undo key has popped an action, the
\* confirmation shown names the kind of that action.
ToastNamesUndoneKind ==
  [][UndoPops => toast' = MessageNaming(Top.type)]_vars

\* C15: after a load of the record data the inventory is data.inventory,
\* itemsCollected is its size, the puzzle-completed flag is the saved flag, the
\* scene is the saved scene, the removed-object set is the saved set and, in
\* the room, the agent is at the saved position.
LoadRestoresSave ==
  [][LoadAutoSave =>
       LET data == SaveSystem_loadAutoSave(St)
       IN /\ items' = data.inventory
          /\ progress'.itemsCollected = Len(data.inventory)
          /\ progress'.puzzleCompleted = data.gameProgress.puzzleCompleted
          /\ currentSceneName' = data.playerState.currentScene
          /\ removedObjectIds' = data.interactableObjectsRemoved
          /\ data.playerState.currentScene = "room" =>
               playerPos' = data.playerState.position]_vars

(***************************************************************************)
(* Claims about walking in the room, checked under Spec                    *)
(***************************************************************************)
\* the distance between two points that differ along one axis at most
AxisDist(a, b) == Abs(a.x - b.x) + Abs(a.y - b.y) + Abs(a.z - b.z)

\* an animation frame taken in the room while the agent has waypoints left
RoomTick == lastEvent' = "Frame" /\ events' = events + 1 /\ currentSceneName = "room" /\ playerPath # <<>>

\* what a tick of frameTime milliseconds does to an agent at distance d from
\* the head waypoint, according to the claim
TickAsClaimed(frameTime) ==
  LET target == playerPath[1]
      d2 == DistSq(target, playerPos)
      moveDist == (playerSpeed * frameTime) \div 1000
  IN IF d2 < ArriveDist * ArriveDist
     THEN playerPos' = target /\ playerPath' = Tail(playerPath)
     ELSE /\ playerPath' = playerPath
          /\ IF moveDist * moveDist >= d2
             THEN playerPos' = target
             ELSE /\ AxisDist(playerPos, playerPos') = moveDist
                  /\ AxisDist(target, playerPos') = AxisDist(target, playerPos) - moveDist

Range(seq) == {seq[i] : i \in 1..Len(seq)}

\* the agent (position and queue) after one more tick, of the shortest frame
\* time the model takes for it
AfterTick(a) ==
  LET exact == {t \in FrameTimes : StepIsExact(a, t)}
      next == RoomScene_update(a, CHOOSE t \in exact : \A u \in exact : t <= u)
  IN [playerPos |-> next.playerPos, playerPath |-> next.playerPath]

\* the positions the agent takes in n ticks or fewer
RECURSIVE Walked(_, _)
Walked(a, n) == IF n = 0 THEN {a.playerPos} ELSE {a.playerPos} \cup Walked(AfterTick(a), n - 1)

\* the positions the agent takes while it follows its queue to the end: a
\* waypoint takes four ticks at most
PositionsAhead(pos, path) == Walked([playerPos |-> pos, playerPath |-> path], 4 * Len(path) + 2)

\* the step is a click on the room meshes at point, away from the puzzle
\* indicator, for which findPath returns a path, and the queue is that path
ClickFindsPath(point) ==
  /\ lastEvent' = "ClickRoom" /\ events' = events + 1
  /\ DistSq(point, PuzzleIndicatorPos) >= PuzzleClickDist * PuzzleClickDist
  /\ Len(playerPath') > 0
  /\ CellOf(playerPath'[Len(playerPath')]) = CellOf(point)
  /\ playerPath' = findPath(setupRooms, gridWidth, gridDepth, playerPos, point)

ClickFindsNoPath ==
  /\ lastEvent' = "ClickRoom" /\ events' = events + 1
  /\ currentSceneName' = currentSceneName
  /\ \E point \in ClickPoints :
       /\ DistSq(point, PuzzleIndicatorPos) >= PuzzleClickDist * PuzzleClickDist
       /\ Len(findPath(setupRooms, gridWidth, gridDepth, playerPos, point)) = 0
  /\ ~(\E point \in ClickPoints : ClickFindsPath(point))

SavedRecordIsConsistent ==
  autoSaveSlot # <<>> =>
    Range(autoSaveSlot[1].inventory) = autoSaveSlot[1].interactableObjectsRemoved

(***************************************************************************)
(* Claims about scene switches, checked under Spec                          *)
(***************************************************************************)
\* C26: every scene transition on the undo stack leads from one scene to
\* another one: switchToScene records the scene it left and the scene it
\* entered, so an action with the same scene twice is a switch that entered
\* the scene that was current
TransitionsChangeScene ==
  \A i \in 1..Len(actionStack) :
    actionStack[i].type = SCENE_TRANSITION =>
      actionStack[i].data.fromScene # actionStack[i].data.toScene

\* C27: the camera registered with the SceneManager is the camera of the
\* current scene, and the objects of the current scene, and of no other
\* scene, are visible
CameraAndVisibilityFollowScene ==
  /\ currentCamera = currentSceneName
  /\ visibleScenes = {currentSceneName}

(***************************************************************************)
(* Claims about the GameStateManager, checked under SpecState               *)
(***************************************************************************)
\* C28: once the state is VICTORY or GAME_OVER, no call of setItemsCollected,
\* completePuzzle or recordPuzzleFailure changes it
TerminalStatesAbsorb ==
  [][/\ Terminal
     /\ lastEvent' \in {"setItemsCollected", "completePuzzle", "recordPuzzleFailure"}
     => gameState' = gameState]_vars

(***************************************************************************)
(* Claims about pickup objects and the inventory, checked under SpecLoad    *)
(***************************************************************************)
\* C29: every pickup object is either in the room world or, as an item, in
\* the inventory, and never in both
PickupInRoomOrInventory ==
  \A id \in ItemIds : (id \in interactableObjects) # Inventory_hasItem(St, id)

(***************************************************************************)
(* Claims about the item count, checked under SpecInventory                 *)
(***************************************************************************)
TheInventoryCall == calls'[1]

\* C30: after every addItem, removeItem, clear and loadGameState the
\* itemsCollected of the GameStateManager is the number of items in the
\* inventory; an addItem of an item that is in the inventory returns false,
\* changes neither the inventory nor the count and notifies no listener, so
\* that no save is written
ItemCountFollowsInventory ==
  [][/\ TheInventoryCall.op \in {"addItem", "removeItem", "clear", "loadGameState"}
        => progress'.itemsCollected = Inventory_getItemCount([items |-> items'])
     /\ TheInventoryCall.op = "addItem" /\ Inventory_hasItem(St, TheInventoryCall.id)
        => /\ ~TheInventoryCall.ret
           /\ UNCHANGED <<items, progress, gameState, autoSaveSlot>>]_vars

\* the last call was an addItem of an item already held, made while there was
\* no auto-save and slot 1 held the record of a smaller inventory
ItemCountFollowsInventory_Witness ==
  /\ calls # <<>>
  /\ calls[1].op = "addItem"
  /\ ~calls[1].ret
  /\ autoSaveSlot = <<>>
  /\ saveSlot # <<>>
  /\ Len(items) >= 2
  /\ Len(saveSlot[1].inventory) < Len(items)

=============================================================================
